---- MODULE Spec2Model ----
(***************************************************************************)
(* MC/bin/o2dpg_determine_eventstat.py: counts the MC collisions of an     *)
(* AO2D file and of the GEANT kinematics files below the working           *)
(* directory, compares the two counts and writes 0_0_0_<N>.stat.           *)
(*                                                                         *)
(* Text (file names, key names, file lines) is a sequence of one-character *)
(* strings.  What the script reads from ROOT files and from the directory  *)
(* is chosen by the environment at the moment the script reads it.         *)
(***************************************************************************)
EXTENDS Integers, Sequences, FiniteSets

(* ------------------------------ bounds -------------------------------- *)

\* top-level keys the AO2D file may hold
MaxKeys == 2
\* keys (tables, all cycles) a DF_ directory may hold
MaxTabs == 2
\* entries a tree may hold
MaxEntries == 2
\* runs of the script in the same working directory
MaxRuns == 2
\* characters after "O2mccollision" in the member names given to the matcher
MaxSuffix == 3
\* the AO2D file holds no more collisions than this
MaxCount == 4
\* largest count handed to write_stat_file on its own
MaxStatCount == 120

(* ------------------------------- text --------------------------------- *)

Digits == <<"0", "1", "2", "3", "4", "5", "6", "7", "8", "9">>

DigitChars == {Digits[i] : i \in 1..Len(Digits)}

\* Python's str() of a non-negative int
RECURSIVE str(_)
str(n) == IF n < 10 THEN <<Digits[n + 1]>> ELSE str(n \div 10) \o <<Digits[(n % 10) + 1]>>

\* Python's s.startswith(p)
startswith(s, p) == Len(s) >= Len(p) /\ SubSeq(s, 1, Len(p)) = p

Drop(s, n) == SubSeq(s, n + 1, Len(s))

\* '.' of a Python regular expression: any character but a newline
RegexDot(c) == c # "\n"

P_O2mccollision == <<"O", "2", "m", "c", "c", "o", "l", "l", "i", "s", "i", "o", "n">>

\* the tail "(_[0-9]*)?$" of the pattern: nothing or an underscore and any
\* number of digits, up to the end of the name or to a newline that ends it
MatchVersionTail(r) ==
    \E n \in {Len(r), Len(r) - 1} :
        /\ n >= 0
        /\ (n < Len(r) => r[Len(r)] = "\n")
        /\ \/ n = 0
           \/ /\ r[1] = "_"
              /\ \A i \in 2..n : r[i] \in DigitChars

\* re.match("^O2mccollision(_[0-9]*)?$", tabname)
IsCollisionTableName(tabname) ==
    /\ startswith(tabname, P_O2mccollision)
    /\ MatchVersionTail(Drop(tabname, Len(P_O2mccollision)))

P_sgn == <<"s", "g", "n">>

P_Kine == <<"_", "K", "i", "n", "e">>

P_root == <<"r", "o", "o", "t">>

\* re.match(r'sgn.*_Kine.root', file_name): anchored at the start only
MatchesKinePattern(file_name) ==
    /\ startswith(file_name, P_sgn)
    /\ \E i \in (Len(P_sgn) + 1)..Len(file_name) :
          /\ \A j \in (Len(P_sgn) + 1)..(i - 1) : RegexDot(file_name[j])
          /\ startswith(Drop(file_name, i - 1), P_Kine)
          /\ Len(file_name) >= i + Len(P_Kine)
          /\ RegexDot(file_name[i + Len(P_Kine)])
          /\ startswith(Drop(file_name, i + Len(P_Kine)), P_root)

(* ----------------------------- stat file ------------------------------ *)

StatPrefix == <<"0", "_", "0", "_", "0", "_">>

StatSuffix == <<".", "s", "t", "a", "t">>

StatLine1 == <<"#", "T", "h", "i", "s", " ", "f", "i", "l", "e", " ", "i", "s", " ", "a", "u", "t", "o", "g", "e", "n", "e", "r", "a", "t", "e", "d">>

StatLine2 == <<"#", "I", "t", " ", "t", "e", "l", "l", "s", " ", "M", "o", "n", "a", "L", "i", "s", "a", " ", "a", "b", "o", "u", "t", " ", "t", "h", "e", " ", "n", "u", "m", "b", "e", "r", " ", "o", "f", " ", "p", "r", "o", "d", "u", "c", "e", "d", " ", "M", "C", " ", "e", "v", "e", "n", "t", "s">>

StatLine3 == <<"#", "N", "u", "m", "e", "r", " ", "o", "f", " ", "M", "C", " ", "c", "o", "l", "l", "i", "s", "i", "o", "n", "s", " ", "i", "n", " ", "A", "O", "D", " ", ":", " ">>

\* filename = '0_0_0_' + str(eventcount) + '.stat'
StatFileName(eventcount) == StatPrefix \o str(eventcount) \o StatSuffix

\* the three print(..., file=f) calls, one line each
StatFileLines(eventcount) == <<StatLine1, StatLine2, StatLine3 \o str(eventcount)>>

\* open(filename, 'a') in place of 'w': an existing file keeps its lines
OpenForAppending(dir, filename) ==
    [n \in DOMAIN dir \cup {filename} |-> IF n \in DOMAIN dir THEN dir[n] ELSE <<>>]

\* open(filename, 'w'): the file is created, or truncated when it exists
OpenForWriting(dir, filename) ==
    [n \in DOMAIN dir \cup {filename} |-> IF n = filename THEN <<>> ELSE dir[n]]

\* print(..., file=f): lines are added at the end of the open file
PrintTo(dir, filename, lines) == [dir EXCEPT ![filename] = @ \o lines]

(* --------------------------- console output --------------------------- *)

MsgNoTable == <<"E", "R", "R", "O", "R", ":", " ", "N", "o", " ", "M", "C", " ", "c", "o", "l", "l", "i", "s", "i", "o", "n", " ", "t", "a", "b", "l", "e", " ", "f", "o", "u", "n", "d">>

MsgDiffer == <<"W", "A", "R", "N", ":", " ", "A", "O", "2", "D", " ", "M", "C", " ", "e", "v", "e", "n", "t", " ", "c", "o", "u", "n", "t", " ", "a", "n", "d", " ", "G", "E", "A", "N", "T", " ", "e", "v", "e", "n", "t", " ", "c", "o", "u", "n", "t", " ", "d", "i", "f", "f", "e", "r">>

MsgFound(n) == <<"F", "o", "u", "n", "d", " ">> \o str(n) \o <<" ", "e", "v", "e", "n", "t", "s", " ", "i", "n", " ", "A", "O", "2", "D", " ", "f", "i", "l", "e">>

(* --------------------------- the environment -------------------------- *)

\* args.aod_file, at its default
aod_file == <<"A", "O", "2", "D", ".", "r", "o", "o", "t">>

\* what ReadObj()/Get() can hand back: a tree, an object of another class,
\* or a null pointer
Tree(n) == [class |-> "TTree", entries |-> n]

OtherObj == [class |-> "TMap", entries |-> 0]

NullObj == [class |-> "nullptr", entries |-> 0]

Directory == [class |-> "TDirectoryFile", entries |-> 0]

Trees == {Tree(n) : n \in 0..MaxEntries}

\* names of the top-level keys of an AO2D file
TopNames == {<<"D", "F", "_", "1">>, <<"m", "e", "t", "a", "D", "a", "t", "a">>}

\* what key.ReadObj() of a top-level key can be
TopObjs == {Directory, OtherObj, NullObj}

\* names of the keys of a DF_ directory
TabNames ==
    {<<"O", "2", "m", "c", "c", "o", "l", "l", "i", "s", "i", "o", "n", "_", "0", "0", "1">>,
     <<"O", "2", "m", "c", "c", "o", "l", "l", "i", "s", "i", "o", "n", "l", "a", "b", "e", "l", "_", "0", "0", "1">>}

\* a key of a DF_ directory: its name and the object stored under it.  A
\* directory may hold several keys of one name (the cycles of one object),
\* the highest cycle first in the list of keys.
TabKeys == [name : TabNames, obj : Trees \cup {OtherObj, NullObj}]

\* files below the working directory whose name starts with "sgn", and others
SgnNames ==
    {<<"s", "g", "n", "_", "1", "_", "K", "i", "n", "e", ".", "r", "o", "o", "t">>,
     <<"s", "g", "n", "_", "2", "_", "K", "i", "n", "e", ".", "r", "o", "o", "t">>}

OtherNames == {<<"b", "k", "g", "_", "1", "_", "K", "i", "n", "e", ".", "r", "o", "o", "t">>}

\* a file on disk as ROOT sees it: whether TFile.Open succeeds, and what
\* Get("o2sim") returns
RootFiles == [opens : {TRUE}, o2sim : Trees \cup {OtherObj, NullObj}]
                 \cup {[opens |-> FALSE, o2sim |-> NullObj]}

\* the simulation files below the working directory
SimDirs ==
    {d \in UNION {[S -> RootFiles] : S \in SUBSET (SgnNames \cup OtherNames)} :
        \A n \in DOMAIN d \cap OtherNames : d[n] = [opens |-> TRUE, o2sim |-> Tree(1)]}

\* all orders in which the elements of S can be listed
Orders(S) == {s \in [1..Cardinality(S) -> S] : \A i, j \in 1..Cardinality(S) : s[i] = s[j] => i = j}

Unbound == <<>>

(* ------------------------------- state -------------------------------- *)

VARIABLES
    pc,               \* where the script is
    run,              \* number of the current run in this working directory
    cwd,              \* the text files of the working directory: name -> lines
    writes,           \* the open(filename, 'w') calls of the current run
    stdout,           \* lines printed by the current run
    openfiles,        \* ROOT files open in the current run
    tfile,            \* read_AO2D_eventcount: what TFile.Open returned
    nkeys,            \* read_AO2D_eventcount: top-level keys iterated
    key_name,         \* read_AO2D_eventcount: name of the current key
    obj,              \* read_AO2D_eventcount: the DF_ directory being read
    tab,              \* read_AO2D_eventcount: the current key of obj
    eventcount,       \* read_AO2D_eventcount: running total
    colfound,         \* read_AO2D_eventcount: tables found
    AO2D_eventcount,  \* module level: Unbound or <<count>>
    simfiles,         \* the files os.walk finds: name -> RootFiles
    kine_files,       \* read_accumulated_GEANT_eventcount: files still to read
    kine_eventcount,  \* read_accumulated_GEANT_eventcount: running total
    GEANT_eventcount  \* module level: Unbound or <<count>>

vars == <<pc, run, cwd, writes, stdout, openfiles, tfile, nkeys, key_name, obj,
          tab, eventcount, colfound, AO2D_eventcount, simfiles, kine_files,
          kine_eventcount, GEANT_eventcount>>

aodLocals == <<tfile, nkeys, key_name, obj, tab, eventcount, colfound>>

kineLocals == <<simfiles, kine_files, kine_eventcount>>

NoTab == [name |-> <<>>, obj |-> NullObj]

\* a DF_ directory as far as the loop over its keys has got: the number of
\* keys listed, and for each name listed the object of its first key
NoObj == [listed |-> 0, highest |-> <<>>]

\* the directory with its next key k listed
Listed(dir, k) ==
    [listed |-> dir.listed + 1,
     highest |-> [n \in DOMAIN dir.highest \cup {k.name} |->
                     IF n \in DOMAIN dir.highest THEN dir.highest[n] ELSE k.obj]]

\* a fresh interpreter: nothing bound, nothing open, nothing printed
FreshProcess ==
    /\ stdout = <<>>
    /\ openfiles = {}
    /\ tfile = "unbound"
    /\ nkeys = 0
    /\ key_name = <<>>
    /\ obj = NoObj
    /\ tab = NoTab
    /\ eventcount = 0
    /\ colfound = 0
    /\ AO2D_eventcount = Unbound
    /\ simfiles = <<>>
    /\ kine_files = <<>>
    /\ kine_eventcount = 0
    /\ GEANT_eventcount = Unbound

Init ==
    /\ pc = "aod_open"
    /\ run = 1
    /\ cwd = <<>>
    /\ writes = <<>>
    /\ FreshProcess

(* ------------------------ read_AO2D_eventcount ------------------------ *)

P_DF == <<"D", "F", "_">>

\* `if coltree and isinstance(coltree, ROOT.TTree)`
IsTree(o) == o.class # "nullptr" /\ o.class = "TTree"

\* obj.GetKey(tabname): the first key of that name in the directory's list
\* of keys, which is the one of the highest cycle
GetKey(dir, tabname) == dir.highest[tabname]

\* AO2D_Open with a file that does not open taken as a file without keys
AO2D_Open_Guarded ==
    /\ pc = "aod_open"
    /\ eventcount' = 0
    /\ colfound' = 0
    /\ \E opened \in BOOLEAN :
          IF opened
          THEN /\ tfile' = "open"
               /\ openfiles' = openfiles \cup {aod_file}
               /\ pc' = "aod_keys"
          ELSE /\ tfile' = "null"
               /\ openfiles' = openfiles
               /\ pc' = "aod_end"
    /\ UNCHANGED <<run, cwd, writes, stdout, nkeys, key_name, obj, tab,
                   AO2D_eventcount, kineLocals, GEANT_eventcount>>

\* eventcount = 0; tfile = ROOT.TFile.Open(file); keys = tfile.GetListOfKeys()
AO2D_Open ==
    /\ pc = "aod_open"
    /\ eventcount' = 0
    /\ colfound' = 0
    /\ \E opened \in BOOLEAN :
          IF opened
          THEN /\ tfile' = "open"
               /\ openfiles' = openfiles \cup {aod_file}
               /\ pc' = "aod_keys"
          ELSE \* a null TFile: GetListOfKeys() raises
               /\ tfile' = "null"
               /\ openfiles' = openfiles
               /\ pc' = "crashed"
    /\ UNCHANGED <<run, cwd, writes, stdout, nkeys, key_name, obj, tab,
                   AO2D_eventcount, kineLocals, GEANT_eventcount>>

\* for key in keys: the next key; a "DF_" key is read and its keys are listed
AO2D_NextKey ==
    /\ pc = "aod_keys"
    /\ nkeys < MaxKeys
    /\ \E kn \in TopNames, o \in TopObjs :
          /\ key_name' = kn
          /\ nkeys' = nkeys + 1
          /\ IF startswith(kn, P_DF)
             THEN IF o = Directory
                  THEN pc' = "aod_tabs"
                  ELSE \* obj.GetListOfKeys() raises: not a directory, or null
                       pc' = "crashed"
             ELSE pc' = "aod_keys"
    /\ obj' = NoObj
    /\ UNCHANGED <<run, cwd, writes, stdout, openfiles, tfile, tab, eventcount, colfound,
                   AO2D_eventcount, kineLocals, GEANT_eventcount>>

\* for key in keys: no key is left
AO2D_KeysDone ==
    /\ pc = "aod_keys"
    /\ pc' = "aod_end"
    /\ UNCHANGED <<run, cwd, writes, stdout, openfiles, aodLocals,
                   AO2D_eventcount, kineLocals, GEANT_eventcount>>

\* for tab in tablelist: the next key of the directory (no further key is
\* listed once the total could pass MaxCount)
AO2D_NextTab ==
    /\ pc = "aod_tabs"
    /\ obj.listed < MaxTabs
    /\ eventcount + MaxEntries <= MaxCount
    /\ \E k \in TabKeys :
          /\ tab' = k
          /\ obj' = Listed(obj, k)
    /\ pc' = "aod_match"
    /\ UNCHANGED <<run, cwd, writes, stdout, openfiles, tfile, nkeys, key_name, eventcount,
                   colfound, AO2D_eventcount, kineLocals, GEANT_eventcount>>

\* for tab in tablelist: no key is left; obj is not used again
AO2D_TabsDone ==
    /\ pc = "aod_tabs"
    /\ obj' = NoObj
    /\ pc' = "aod_keys"
    /\ UNCHANGED <<run, cwd, writes, stdout, openfiles, tfile, nkeys, key_name, tab,
                   eventcount, colfound, AO2D_eventcount, kineLocals, GEANT_eventcount>>

\* the body of the inner loop: match the name, read the key of that name,
\* count its entries; tab is not used again
AO2D_CountTab ==
    /\ pc = "aod_match"
    /\ LET tabname == tab.name
           coltree == GetKey(obj, tabname)
       IN  IF IsCollisionTableName(tabname) /\ IsTree(coltree)
           THEN /\ eventcount' = eventcount + coltree.entries
                /\ colfound' = colfound + 1
           ELSE UNCHANGED <<eventcount, colfound>>
    /\ tab' = NoTab
    /\ pc' = "aod_tabs"
    /\ UNCHANGED <<run, cwd, writes, stdout, openfiles, tfile, nkeys, key_name, obj,
                   AO2D_eventcount, kineLocals, GEANT_eventcount>>

\* AO2D_Diagnose testing the total in place of the number of tables found
AO2D_Diagnose_OnZeroCount ==
    /\ pc = "aod_end"
    /\ stdout' = IF eventcount = 0 THEN Append(stdout, MsgNoTable) ELSE stdout
    /\ pc' = "aod_close"
    /\ UNCHANGED <<run, cwd, writes, openfiles, aodLocals,
                   AO2D_eventcount, kineLocals, GEANT_eventcount>>

\* if colfound == 0: print(...)
AO2D_Diagnose ==
    /\ pc = "aod_end"
    /\ stdout' = IF colfound = 0 THEN Append(stdout, MsgNoTable) ELSE stdout
    /\ pc' = "aod_close"
    /\ UNCHANGED <<run, cwd, writes, openfiles, aodLocals,
                   AO2D_eventcount, kineLocals, GEANT_eventcount>>

\* tfile.Close(); return eventcount, bound to AO2D_eventcount; the locals go
AO2D_Return ==
    /\ pc = "aod_close"
    /\ openfiles' = openfiles \ {aod_file}
    /\ AO2D_eventcount' = <<eventcount>>
    /\ tfile' = "unbound"
    /\ nkeys' = 0
    /\ key_name' = <<>>
    /\ obj' = NoObj
    /\ tab' = NoTab
    /\ eventcount' = 0
    /\ colfound' = 0
    /\ pc' = "scan"
    /\ UNCHANGED <<run, cwd, writes, stdout, kineLocals, GEANT_eventcount>>

(* ----------------- read_accumulated_GEANT_eventcount ------------------ *)

\* os.walk lists every file once, in an order that is not fixed: the lists
\* find_files_matching_pattern can return for the files of a directory tree
find_files_matching_pattern(files) == Orders({f \in files : MatchesKinePattern(f)})

\* what read_GEANT_eventcount returns for a file
read_GEANT_eventcount(file) ==
    IF file.opens /\ IsTree(file.o2sim) THEN file.o2sim.entries ELSE 0

\* eventcount = read_GEANT_eventcount(f): the total is replaced, not added to
Overwrite(total, n) == n

\* eventcount = eventcount + read_GEANT_eventcount(f)
Accumulate(total, n) == total + n

\* kine_files = find_files_matching_pattern(directory, pattern_to_match);
\* eventcount = 0
GEANT_Scan ==
    /\ pc = "scan"
    /\ \E d \in SimDirs :
          /\ simfiles' = d
          /\ \E found \in find_files_matching_pattern(DOMAIN d \cup DOMAIN cwd \cup {aod_file}) :
                kine_files' = found
    /\ kine_eventcount' = 0
    /\ pc' = "kine_loop"
    /\ UNCHANGED <<run, cwd, writes, stdout, openfiles, aodLocals,
                   AO2D_eventcount, GEANT_eventcount>>

\* for f in kine_files: tfile = ROOT.TFile.Open(file); a file that does not
\* open gives 0 at once
GEANT_Open ==
    /\ pc = "kine_loop"
    /\ kine_files # <<>>
    /\ LET f == Head(kine_files)
       IN  IF simfiles[f].opens
           THEN /\ openfiles' = openfiles \cup {f}
                /\ pc' = "kine_read"
                /\ UNCHANGED <<kine_files, kine_eventcount>>
           ELSE /\ kine_eventcount' = Accumulate(kine_eventcount, read_GEANT_eventcount(simfiles[f]))
                /\ kine_files' = Tail(kine_files)
                /\ pc' = "kine_loop"
                /\ UNCHANGED openfiles
    /\ UNCHANGED <<run, cwd, writes, stdout, aodLocals, AO2D_eventcount,
                   simfiles, GEANT_eventcount>>

\* simtree = tfile.Get("o2sim"); ...; tfile.Close(); return eventcount
GEANT_Read ==
    /\ pc = "kine_read"
    /\ LET f == Head(kine_files)
       IN  /\ kine_eventcount' = Accumulate(kine_eventcount, read_GEANT_eventcount(simfiles[f]))
           /\ openfiles' = openfiles \ {f}
    /\ kine_files' = Tail(kine_files)
    /\ pc' = "kine_loop"
    /\ UNCHANGED <<run, cwd, writes, stdout, aodLocals, AO2D_eventcount,
                   simfiles, GEANT_eventcount>>

\* GEANT_Return going straight to the write, the comparison left out
GEANT_Return_SkipsReconcile ==
    /\ pc = "kine_loop"
    /\ kine_files = <<>>
    /\ GEANT_eventcount' = <<kine_eventcount>>
    /\ kine_eventcount' = 0
    /\ pc' = "write"
    /\ UNCHANGED <<run, cwd, writes, stdout, openfiles, aodLocals, AO2D_eventcount,
                   simfiles, kine_files>>

\* return eventcount, bound to GEANT_eventcount
GEANT_Return ==
    /\ pc = "kine_loop"
    /\ kine_files = <<>>
    /\ GEANT_eventcount' = <<kine_eventcount>>
    /\ kine_eventcount' = 0
    /\ pc' = "reconcile"
    /\ UNCHANGED <<run, cwd, writes, stdout, openfiles, aodLocals, AO2D_eventcount,
                   simfiles, kine_files>>

(* ------------------------------ the script ---------------------------- *)

\* if AO2D_eventcount != GEANT_eventcount: print(WARN...); print("Found ...")
Reconcile ==
    /\ pc = "reconcile"
    /\ stdout' = (IF AO2D_eventcount # GEANT_eventcount THEN Append(stdout, MsgDiffer) ELSE stdout)
                     \o <<MsgFound(AO2D_eventcount[1])>>
    /\ pc' = "write"
    /\ UNCHANGED <<run, cwd, writes, openfiles, aodLocals, AO2D_eventcount,
                   kineLocals, GEANT_eventcount>>

\* write_stat_file clearing the stat files of earlier runs
write_stat_file_Replacing(dir, count) ==
    LET filename == StatFileName(count)
    IN  PrintTo(OpenForWriting(<<>>, filename), filename, StatFileLines(count))

\* the effect of write_stat_file(eventcount) on the working directory
write_stat_file(dir, count) ==
    LET filename == StatFileName(count)
    IN  PrintTo(OpenForWriting(dir, filename), filename, StatFileLines(count))

\* the kinematics count handed to write_stat_file
FinalCount_Kinematics == GEANT_eventcount[1]

\* the count the script hands to write_stat_file
FinalCount == AO2D_eventcount[1]

\* write_stat_file(AO2D_eventcount), the last statement
WriteStat ==
    /\ pc = "write"
    /\ cwd' = write_stat_file(cwd, FinalCount)
    /\ writes' = Append(writes, [filename |-> StatFileName(FinalCount),
                                 existed |-> StatFileName(FinalCount) \in DOMAIN cwd])
    /\ pc' = "done"
    /\ UNCHANGED <<run, stdout, openfiles, aodLocals, AO2D_eventcount,
                   kineLocals, GEANT_eventcount>>

\* the script is started again in the same working directory
NextRun ==
    /\ pc \in {"done", "crashed"}
    /\ run < MaxRuns
    /\ run' = run + 1
    /\ pc' = "aod_open"
    /\ stdout' = <<>>
    /\ openfiles' = {}
    /\ tfile' = "unbound"
    /\ nkeys' = 0
    /\ key_name' = <<>>
    /\ obj' = NoObj
    /\ tab' = NoTab
    /\ eventcount' = 0
    /\ colfound' = 0
    /\ AO2D_eventcount' = Unbound
    /\ simfiles' = <<>>
    /\ kine_files' = <<>>
    /\ kine_eventcount' = 0
    /\ GEANT_eventcount' = Unbound
    /\ writes' = <<>>
    /\ UNCHANGED cwd

Next ==
    \/ AO2D_Open
    \/ AO2D_NextKey
    \/ AO2D_KeysDone
    \/ AO2D_NextTab
    \/ AO2D_TabsDone
    \/ AO2D_CountTab
    \/ AO2D_Diagnose
    \/ AO2D_Return
    \/ GEANT_Scan
    \/ GEANT_Open
    \/ GEANT_Read
    \/ GEANT_Return
    \/ Reconcile
    \/ WriteStat
    \/ NextRun

Spec == Init /\ [][Next]_vars

(* ------------- the matcher on its own: one pass of the loop body ------ *)

SuffixChars == {"_", "3", "X", "\n"}

Suffixes == UNION {[1..n -> SuffixChars] : n \in 0..MaxSuffix}

\* member names around "O2mccollision": the name itself, with a character in
\* front, or cut short, each followed by up to MaxSuffix characters
MatchNames ==
    {p \o t : p \in {P_O2mccollision, <<"x">> \o P_O2mccollision,
                     SubSeq(P_O2mccollision, 1, Len(P_O2mccollision) - 1)},
              t \in Suffixes}

\* inside the loop over the keys of a DF_ directory, at a key of any name
InitMatch ==
    /\ pc = "aod_match"
    /\ run = 1
    /\ cwd = <<>>
    /\ writes = <<>>
    /\ stdout = <<>>
    /\ openfiles = {aod_file}
    /\ tfile = "open"
    /\ nkeys = 1
    /\ key_name = <<"D", "F", "_", "1">>
    /\ tab \in [name : MatchNames, obj : {Tree(1), OtherObj}]
    /\ obj = Listed(NoObj, tab)
    /\ eventcount = 0
    /\ colfound = 0
    /\ AO2D_eventcount = Unbound
    /\ simfiles = <<>>
    /\ kine_files = <<>>
    /\ kine_eventcount = 0
    /\ GEANT_eventcount = Unbound

NextMatch == AO2D_CountTab

SpecMatch == InitMatch /\ [][NextMatch]_vars

(* ------------- write_stat_file on its own: any count, any file -------- *)

\* at the last statement, with a count of one or more digits, in a directory
\* that is empty or holds the stat file an earlier run wrote
InitStat ==
    /\ pc = "write"
    /\ run = 1
    /\ \E n \in 0..MaxStatCount :
          /\ AO2D_eventcount = <<n>>
          /\ GEANT_eventcount = <<n>>
          /\ stdout = <<MsgFound(n)>>
          /\ cwd \in {<<>>, write_stat_file(<<>>, n), write_stat_file(<<>>, n + 1)}
    /\ writes = <<>>
    /\ openfiles = {}
    /\ tfile = "unbound"
    /\ nkeys = 0
    /\ key_name = <<>>
    /\ obj = NoObj
    /\ tab = NoTab
    /\ eventcount = 0
    /\ colfound = 0
    /\ simfiles = <<>>
    /\ kine_files = <<>>
    /\ kine_eventcount = 0

NextStat == WriteStat

SpecStat == InitStat /\ [][NextStat]_vars

(* ------------------------------- claims ------------------------------- *)

Range(q) == {q[i] : i \in 1..Len(q)}

\* the entries of a key's own object when the key is a collision table
OwnEntries(k) ==
    IF IsCollisionTableName(k.name) /\ k.obj.class = "TTree" THEN k.obj.entries ELSE 0

\* C1: read_AO2D_eventcount returns the sum of the entry counts of the
\* collision tables found in the DF_ groups: the total starts at 0, every key
\* of a DF_ group that is a collision table adds the entries of its own
\* table, nothing else adds anything, and the total is what is returned.
C1_SumOfCollisionTables ==
    [][/\ (pc = "aod_open" => eventcount' = 0)
       /\ (pc = "aod_match" => eventcount' = eventcount + OwnEntries(tab))
       /\ (pc \in {"aod_keys", "aod_tabs", "aod_end"} => eventcount' = eventcount)
       /\ (pc = "aod_close" => AO2D_eventcount' = <<eventcount>>)]_vars

\* C2: once the aggregated file was read the run does not fail and goes on to
\* the end; the stat file it writes is named and filled for the aggregated
\* total, not the kinematics total; the warning is printed exactly when the
\* two totals differ.
C2_AggregatedCountIsWritten ==
    /\ (AO2D_eventcount # Unbound => pc # "crashed")
    /\ (pc \in {"scan", "kine_loop", "kine_read", "reconcile", "write"} => ENABLED Next)
    /\ (pc \in {"write", "done"} =>
           (MsgDiffer \in Range(stdout) <=> GEANT_eventcount # AO2D_eventcount))
    /\ (pc = "done" =>
           /\ Len(writes) = 1
           /\ writes[1].filename = StatFileName(AO2D_eventcount[1])
           /\ (GEANT_eventcount # AO2D_eventcount =>
                  writes[1].filename # StatFileName(GEANT_eventcount[1]))
           /\ writes[1].filename \in DOMAIN cwd
           /\ cwd[writes[1].filename] = StatFileLines(AO2D_eventcount[1]))

C2_Witness ==
    /\ pc = "done"
    /\ GEANT_eventcount # AO2D_eventcount
    /\ MsgDiffer \in Range(stdout)
    /\ StatFileName(AO2D_eventcount[1]) \in DOMAIN cwd

DigitValue(c) == CHOOSE i \in 0..9 : Digits[i + 1] = c

RECURSIVE DecimalValue(_)
DecimalValue(d) ==
    IF d = <<>> THEN 0
    ELSE 10 * DecimalValue(SubSeq(d, 1, Len(d) - 1)) + DigitValue(d[Len(d)])

\* d is the decimal numeral of n: digits only, no leading zero, value n
IsDecimalOf(d, n) ==
    /\ d # <<>>
    /\ \A i \in 1..Len(d) : d[i] \in DigitChars
    /\ (Len(d) > 1 => d[1] # "0")
    /\ DecimalValue(d) = n

C3_NameHead == <<"0", "_", "0", "_", "0", "_">>

C3_NameTail == <<".", "s", "t", "a", "t">>

C3_ThirdLine == <<"#", "N", "u", "m", "e", "r", " ", "o", "f", " ", "M", "C", " ", "c", "o", "l", "l", "i", "s", "i", "o", "n", "s", " ", "i", "n", " ", "A", "O", "D", " ", ":", " ">>

\* f is "0_0_0_<n>.stat"
IsStatNameOf(f, n) ==
    /\ startswith(f, C3_NameHead)
    /\ Len(f) > Len(C3_NameHead) + Len(C3_NameTail)
    /\ SubSeq(f, Len(f) - Len(C3_NameTail) + 1, Len(f)) = C3_NameTail
    /\ IsDecimalOf(SubSeq(f, Len(C3_NameHead) + 1, Len(f) - Len(C3_NameTail)), n)

\* C3: after write_stat_file(N) the directory holds 0_0_0_<N>.stat with
\* exactly three lines, each beginning with '#', the third the fixed text
\* followed by the decimal N, whether or not the file existed before.
C3_StatFileNameAndContent ==
    pc = "done" =>
        /\ Len(writes) = 1
        /\ LET f == writes[1].filename
               n == AO2D_eventcount[1]
           IN  /\ IsStatNameOf(f, n)
               /\ f \in DOMAIN cwd
               /\ Len(cwd[f]) = 3
               /\ \A i \in 1..Len(cwd[f]) : cwd[f][i] # <<>> /\ cwd[f][i][1] = "#"
               /\ startswith(cwd[f][3], C3_ThirdLine)
               /\ IsDecimalOf(Drop(cwd[f][3], Len(C3_ThirdLine)), n)

C3_Witness ==
    /\ pc = "done"
    /\ Len(writes) = 1
    /\ writes[1].existed
    /\ AO2D_eventcount = <<MaxStatCount>>

RECURSIVE SumOver(_, _)
SumOver(S, d) ==
    IF S = {} THEN 0
    ELSE LET f == CHOOSE x \in S : TRUE
         IN  (IF d[f].opens /\ d[f].o2sim.class = "TTree" THEN d[f].o2sim.entries ELSE 0)
                 + SumOver(S \ {f}, d)

\* C4: read_accumulated_GEANT_eventcount returns the sum over the matched
\* files of the entries of their "o2sim" tree, a file that does not open or
\* holds no such tree giving 0; it is 0 without matched files and the same
\* for every order of the files.
C4_KinematicsSum ==
    GEANT_eventcount # Unbound =>
        GEANT_eventcount[1] = SumOver({f \in DOMAIN simfiles : MatchesKinePattern(f)}, simfiles)

C4_Witness ==
    /\ pc = "reconcile"
    /\ GEANT_eventcount = <<MaxEntries>>
    /\ \E f, g \in DOMAIN simfiles :
          /\ MatchesKinePattern(f) /\ MatchesKinePattern(g)
          /\ ~simfiles[f].opens
          /\ simfiles[g].o2sim = Tree(MaxEntries)

\* C5: the "No MC collision table found" line is printed exactly when the
\* tables-found counter is zero after all groups were processed; when it is
\* printed the function has not failed and the total it returns is 0.
C5_NoTableDiagnostic ==
    /\ (pc \in {"aod_open", "aod_keys", "aod_tabs", "aod_match", "aod_end", "crashed"} =>
           MsgNoTable \notin Range(stdout))
    /\ (pc = "aod_close" => (MsgNoTable \in Range(stdout) <=> colfound = 0))
    /\ (MsgNoTable \in Range(stdout) =>
           IF pc = "aod_close" THEN eventcount = 0 ELSE AO2D_eventcount = <<0>>)

C5_Witness ==
    /\ pc = "scan"
    /\ MsgNoTable \in Range(stdout)
    /\ AO2D_eventcount = <<0>>

\* what C6 says a collision table is called: "O2mccollision", or that name
\* with an underscore and one or more digits
ClaimedCollisionTableName(name) ==
    \/ name = P_O2mccollision
    \/ /\ startswith(name, P_O2mccollision \o <<"_">>)
       /\ Len(name) > Len(P_O2mccollision) + 1
       /\ \A i \in (Len(P_O2mccollision) + 2)..Len(name) : name[i] \in DigitChars

\* C6: a member of a DF_ group is taken as a collision table (and counted,
\* when it is a tree) if and only if its name is "O2mccollision" or
\* "O2mccollision_" followed by one or more digits.
C6_VersionedNamesOnly ==
    [][pc = "aod_match" =>
          (colfound' = colfound + 1 <=>
              ClaimedCollisionTableName(tab.name) /\ IsTree(GetKey(obj, tab.name)))]_vars

\* C7: when the aggregated file does not open the run fails and the
\* directory is left as it was; a run writes at most once, and only at its
\* last statement, after both counters have returned.
C7_FailureWritesNothing ==
    [][/\ (tfile' = "null" => pc' = "crashed")
       /\ (pc' = "crashed" => writes' = <<>> /\ cwd' = cwd)
       /\ (pc = "crashed" => cwd' = cwd /\ pc' = "aod_open" /\ run' = run + 1)
       /\ (cwd' # cwd \/ Len(writes') > Len(writes) =>
              /\ pc = "write" /\ pc' = "done"
              /\ writes = <<>> /\ Len(writes') = 1
              /\ AO2D_eventcount # Unbound /\ GEANT_eventcount # Unbound)]_vars

C7_Witness ==
    /\ pc = "crashed"
    /\ tfile = "null"
    /\ run > 1
    /\ DOMAIN cwd # {}

\* C8: at most one ROOT file is open at any time and none is open when the
\* run has ended, by completion or by failure.
C8_FilesAreClosed ==
    /\ Cardinality(openfiles) <= 1
    /\ (pc \in {"done", "crashed"} => openfiles = {})

\* C9: the kinematics files are scanned and counted before the aggregated
\* file is opened.
C9_KinematicsFirst == aod_file \in openfiles => GEANT_eventcount # Unbound

\* C9 as amended: the aggregated file is opened, counted and closed first,
\* then the kinematics files are scanned and counted, the comparison comes
\* after both counts, and the write is the last step.
C9_AggregatedFirst ==
    /\ (aod_file \in openfiles =>
           AO2D_eventcount = Unbound /\ GEANT_eventcount = Unbound /\ DOMAIN simfiles = {})
    /\ (pc \in {"kine_loop", "kine_read"} \/ DOMAIN simfiles # {} =>
           AO2D_eventcount # Unbound /\ aod_file \notin openfiles)
    /\ (GEANT_eventcount # Unbound => AO2D_eventcount # Unbound /\ openfiles = {})
    /\ (stdout # <<>> /\ stdout # <<MsgNoTable>> =>
           GEANT_eventcount # Unbound /\ pc \in {"write", "done"})
    /\ (pc = "write" => MsgFound(AO2D_eventcount[1]) \in Range(stdout) /\ writes = <<>>)
    /\ (writes # <<>> => pc = "done")

C9_Witness ==
    /\ pc = "done"
    /\ DOMAIN simfiles # {}
    /\ writes # <<>>
    /\ MsgDiffer \in Range(stdout)

\* C10: a run changes the working directory only by creating or overwriting
\* 0_0_0_<N>.stat for its own final count N; every other file stays, with
\* its content, so the stat files present are those of the first run and
\* of every run after it.
C10_OnlyOwnStatFile ==
    [][/\ (pc # "write" => cwd' = cwd)
       /\ (pc \notin {"scan", "done", "crashed"} => simfiles' = simfiles)
       /\ (pc = "write" =>
              \E f \in DOMAIN cwd' :
                  /\ IsStatNameOf(f, AO2D_eventcount[1])
                  /\ DOMAIN cwd' = DOMAIN cwd \cup {f}
                  /\ \A n \in DOMAIN cwd \ {f} : cwd'[n] = cwd[n])]_vars

C10_Witness ==
    /\ pc = "done"
    /\ run = MaxRuns
    /\ Cardinality(DOMAIN cwd) = MaxRuns

====
